---- MODULE Spec2Model ----
(***************************************************************************)
(* Model of tessa.py: a file hashing tool with a flag-driven (one-shot)    *)
(* mode and an interactive menu mode.                                      *)
(*                                                                         *)
(* Text is modelled as a sequence of one-character strings, so that        *)
(* str.strip and str.lower are real conversions.  Bytes are small          *)
(* naturals; a file's content is a sequence of bytes.                      *)
(***************************************************************************)
EXTENDS Integers, Sequences, FiniteSets, TLC

VARIABLES
    algorithms_available,  \* hashlib.algorithms_available: names the library reports
    libKind,               \* what hashlib.new(name) gives for each lowercase name
    SUPPORTED_ALGORITHMS,  \* module-level tuple computed once at import (line 30)
    content,               \* bytes of the one regular file of the file system
    pc,                    \* where the process is: start, a prompt, or exited
    prev,                  \* pc before the last step
    argv,                  \* the command line given to main()
    inp,                   \* the line consumed by the last input() call
    file_path,             \* local of compare_hashes / generate_hash / main
    expected_hash,         \* local of compare_hashes / main
    raw_expected,          \* the expected hash as the user typed it
    out,                   \* what the last step printed / did, in order
    call,                  \* the compute_hash invocation made by the last step
    result,                \* value returned by the last *_and_report call
    exit_code,             \* process exit status, meaningful when pc = "exited"
    bannerCount            \* number of display_intro() calls so far

vars == <<algorithms_available, libKind, SUPPORTED_ALGORITHMS, content, pc, prev,
          argv, inp, file_path, expected_hash, raw_expected, out, call, result,
          exit_code, bannerCount>>

-----------------------------------------------------------------------------
(* Bounds of the model.                                                    *)

\* largest file of the main specification, in bytes
MaxFileLen == 2
\* I/O fault injected into a compute_hash call: 0 none, 1 open fails,
\* k+1 the k-th read fails
MaxFault == 3
\* largest file of the compute_hash specification, in chunks of CHUNK_SIZE
\* bytes (one more byte is allowed)
MaxChunks == 2

-----------------------------------------------------------------------------
(* Python values.                                                          *)

\* Python's None: distinct from every string (a string's elements are
\* one-character strings).
None == <<"None">>

\* Characters in code-point order (the part of ASCII the model uses).
Alphabet ==
    <<" ", "0", "1", "2", "3", "4", "5", "6", "7", "8", "9",
      "A", "B", "C", "D", "E", "F", "G", "H", "I", "J", "K", "L", "M",
      "N", "O", "P", "Q", "R", "S", "T", "U", "V", "W", "X", "Y", "Z",
      "_",
      "a", "b", "c", "d", "e", "f", "g", "h", "i", "j", "k", "l", "m",
      "n", "o", "p", "q", "r", "s", "t", "u", "v", "w", "x", "y", "z">>

Ord(c) == CHOOSE i \in 1..Len(Alphabet) : Alphabet[i] = c

IsUpper(c) == \E i \in 12..37 : Alphabet[i] = c

\* str.lower on one character: "A".."Z" map to "a".."z", the rest is kept
LowerChar(c) == IF IsUpper(c) THEN Alphabet[Ord(c) + 27] ELSE c

\* str.lower
lower(s) == [i \in 1..Len(s) |-> LowerChar(s[i])]

Whitespace == {" "}

RECURSIVE lstrip(_)
lstrip(s) == IF s /= <<>> /\ Head(s) \in Whitespace THEN lstrip(Tail(s)) ELSE s

RECURSIVE rstrip(_)
rstrip(s) ==
    IF s /= <<>> /\ s[Len(s)] \in Whitespace
    THEN rstrip(SubSeq(s, 1, Len(s) - 1))
    ELSE s

\* str.strip
strip(s) == rstrip(lstrip(s))

\* lexicographic order of str
RECURSIVE StrLess(_, _)
StrLess(a, b) ==
    IF b = <<>> THEN FALSE
    ELSE IF a = <<>> THEN TRUE
    ELSE IF Head(a) /= Head(b) THEN Ord(Head(a)) < Ord(Head(b))
    ELSE StrLess(Tail(a), Tail(b))

\* sorted(set of str), as a tuple
RECURSIVE sorted(_)
sorted(S) ==
    IF S = {} THEN <<>>
    ELSE LET m == CHOOSE x \in S : \A y \in S \ {x} : StrLess(x, y)
         IN  <<m>> \o sorted(S \ {m})

\* x in tuple
InTuple(x, t) == \E i \in 1..Len(t) : t[i] = x

-----------------------------------------------------------------------------
(* Names used by the program and by the inputs.                            *)

sha256    == <<"s", "h", "a", "2", "5", "6">>
md5       == <<"m", "d", "5">>
shake_256 == <<"s", "h", "a", "k", "e", "_", "2", "5", "6">>
bogus     == <<"b", "o", "g", "u", "s">>
back      == <<"b", "a", "c", "k">>
default_  == <<"d", "e", "f", "a", "u", "l", "t">>
SHA256    == <<"S", "H", "A", "2", "5", "6">>
Md5       == <<"M", "d", "5">>

\* The names the library may know, in lowercase.
LibNames == {sha256, md5, shake_256}

\* hashlib.new(name): "fixed" gives a hash object whose hexdigest() takes no
\* argument, "xof" one whose hexdigest() needs a length (TypeError without
\* it), "unavailable" raises ValueError.
LibKinds == {"fixed", "xof", "unavailable"}

KindOf(name) == IF name \in DOMAIN libKind THEN libKind[name] ELSE "unavailable"

-----------------------------------------------------------------------------
(* Algorithm Registry.                                                     *)

\* hashlib.new(candidate).hexdigest(): the exception raised, "" for none.
Probe(candidate) ==
    IF KindOf(candidate) = "fixed" THEN ""
    ELSE IF KindOf(candidate) = "xof" THEN "TypeError"
    ELSE "ValueError"

\* An except clause that names ValueError only.
ProbeCaught_value(exc) == exc = "ValueError"

\* except (TypeError, ValueError)
ProbeCaught(exc) == exc \in {"TypeError", "ValueError"}

\* Some probe raises an exception the except clause does not name: it leaves
\* _fixed_digest_algorithms and the module's import.
RegistryRaises ==
    \E name \in algorithms_available :
        Probe(lower(name)) /= "" /\ ~ProbeCaught(Probe(lower(name)))

\* The loop of _fixed_digest_algorithms over the names not yet visited; the
\* iteration order of the set is whatever CHOOSE picks.
RECURSIVE FixedLoop(_, _)
FixedLoop(names, fixed) ==
    IF names = {} THEN fixed
    ELSE LET name      == CHOOSE n \in names : TRUE
             candidate == lower(name)
         IN  IF candidate \in fixed
             THEN FixedLoop(names \ {name}, fixed)
             ELSE IF Probe(candidate) /= ""
                  THEN FixedLoop(names \ {name}, fixed)
                  ELSE FixedLoop(names \ {name}, fixed \cup {candidate})

_fixed_digest_algorithms == sorted(FixedLoop(algorithms_available, {}))

-----------------------------------------------------------------------------
(* Digest Engine.                                                          *)

CHUNK_SIZE == 8192

Bytes == {0, 1}

HexDigits ==
    <<"0", "1", "2", "3", "4", "5", "6", "7", "8", "9", "a", "b", "c", "d", "e", "f">>

\* A stand-in for the library's digest functions: a value in 0..255 that
\* depends on the algorithm and on the bytes fed to the hash object.
AlgSeed(name) == IF name = sha256 THEN 171 ELSE IF name = md5 THEN 77 ELSE 19

DigestValue(name, data) ==
    LET n == Len(data)
    IN  (AlgSeed(name) + 16 * n
         + (IF n > 0 THEN 3 * data[1] + 5 * data[n] ELSE 0)) % 256

\* h.hexdigest() of a fixed-output hash object
hexdigest(h) ==
    LET v == DigestValue(h.name, h.data)
    IN  <<HexDigits[(v \div 16) + 1], HexDigits[(v % 16) + 1]>>

\* h.update(chunk)
update(h, chunk) == [h EXCEPT !.data = @ \o chunk]

\* os.path.isfile: the file system holds one regular file, "f", and one
\* directory, "d"; every other path does not exist.
RegularFile == <<"f">>
Directory   == <<"d">>

\* os.path.exists, what a check less strict than isfile would use
isfile_exists(path) == path \in {RegularFile, Directory}

isfile(path) == path = RegularFile

\* open(path, "rb") succeeds on the regular file unless an I/O fault hits
can_open(path) == path = RegularFile

Min(a, b) == IF a < b THEN a ELSE b

\* f.read(CHUNK_SIZE) with the file position at pos (bytes already read)
read(pos) == SubSeq(content, pos + 1, Min(pos + CHUNK_SIZE, Len(content)))

\* A loop that takes a short chunk for the end of the file and leaves
\* without feeding it.
RECURSIVE ReadLoop_short(_, _, _, _, _)
ReadLoop_short(h, pos, n, fed, fault) ==
    IF fault = n + 2
    THEN [h |-> h, fed |-> fed, reads |-> n + 1, raised |-> TRUE]
    ELSE IF Len(read(pos)) < CHUNK_SIZE
    THEN [h |-> h, fed |-> fed, reads |-> n + 1, raised |-> FALSE]
    ELSE ReadLoop_short(update(h, read(pos)), pos + Len(read(pos)), n + 1,
                        Append(fed, read(pos)), fault)

\* The while loop of compute_hash, entered with hash state h, file position
\* pos and n reads made so far.  The read numbered fault - 1 raises OSError.
\* Gives the hash state, the chunks fed to it and whether a read raised.
RECURSIVE ReadLoop(_, _, _, _, _)
ReadLoop(h, pos, n, fed, fault) ==
    IF fault = n + 2
    THEN [h |-> h, fed |-> fed, reads |-> n + 1, raised |-> TRUE]
    ELSE IF read(pos) = <<>>
    THEN [h |-> h, fed |-> fed, reads |-> n + 1, raised |-> FALSE]
    ELSE ReadLoop(update(h, read(pos)), pos + Len(read(pos)), n + 1,
                  Append(fed, read(pos)), fault)

\* No compute_hash call.
NoCall ==
    [called |-> FALSE, path |-> None, algorithm |-> None, raised |-> "",
     value |-> None, fed |-> <<>>, reads |-> 0, opened |-> FALSE, closed |-> FALSE,
     events |-> <<>>]

\* A compute_hash call that has done nothing yet.
Started(path, algorithm) ==
    [NoCall EXCEPT !.called = TRUE, !.path = path, !.algorithm = algorithm,
                   !.events = <<"new">>]

\* The library calls of a compute_hash that opened the file and made n reads.
FileEvents(n) == <<"new", "open">> \o [i \in 1..n |-> "read"] \o <<"close">>

\* A compute_hash whose file stays open when a read raises.
Streamed_leak(c, r) ==
    IF r.raised
    THEN [c EXCEPT !.opened = TRUE, !.closed = FALSE, !.fed = r.fed,
                   !.reads = r.reads, !.raised = "OSError",
                   !.events = <<"new", "open">> \o [i \in 1..r.reads |-> "read"]]
    ELSE IF KindOf(c.algorithm) = "xof"
    THEN [c EXCEPT !.opened = TRUE, !.closed = TRUE, !.fed = r.fed,
                   !.reads = r.reads, !.raised = "TypeError",
                   !.events = FileEvents(r.reads) \o <<"hexdigest">>]
    ELSE [c EXCEPT !.opened = TRUE, !.closed = TRUE, !.fed = r.fed,
                   !.reads = r.reads, !.value = hexdigest(r.h),
                   !.events = FileEvents(r.reads) \o <<"hexdigest">>]

\* compute_hash from the `with` statement on (the file opened, the loop
\* having ended as r): the with block closes the file however the loop
\* ended; then hexdigest() is asked of the hash object.
Streamed(c, r) ==
    IF r.raised
    THEN [c EXCEPT !.opened = TRUE, !.closed = TRUE, !.fed = r.fed,
                   !.reads = r.reads, !.raised = "OSError",
                   !.events = FileEvents(r.reads)]
    ELSE IF KindOf(c.algorithm) = "xof"
    THEN [c EXCEPT !.opened = TRUE, !.closed = TRUE, !.fed = r.fed,
                   !.reads = r.reads, !.raised = "TypeError",
                   !.events = FileEvents(r.reads) \o <<"hexdigest">>]
    ELSE [c EXCEPT !.opened = TRUE, !.closed = TRUE, !.fed = r.fed,
                   !.reads = r.reads, !.value = hexdigest(r.h),
                   !.events = FileEvents(r.reads) \o <<"hexdigest">>]

\* compute_hash(file_path, algorithm) under I/O fault `fault`: the exception
\* it raises ("" for none), the value it returns, and what it did to the file.
compute_hash(path, algorithm, fault) ==
    IF KindOf(algorithm) = "unavailable"
    THEN [Started(path, algorithm) EXCEPT !.raised = "ValueError"]
    ELSE IF fault = 1 \/ ~can_open(path)
    THEN [Started(path, algorithm) EXCEPT !.raised = "OSError",
                                          !.events = <<"new", "open">>]
    ELSE Streamed(Started(path, algorithm),
                  ReadLoop([name |-> algorithm, data |-> <<>>], 0, 0, <<>>, fault))

-----------------------------------------------------------------------------
(* Report Formatter.                                                       *)

\* Python's True and False as returned by compare_and_report.
True  == <<"True">>
False == <<"False">>

\* An except clause that names OSError only.
Catches_OSError(exc) == exc = "OSError"

\* `except Exception`: every exception compute_hash raises is a subclass.
Catches(exc) == exc \in {"ValueError", "OSError", "TypeError"}

\* actual_hash == expected_hash
Matches(actual_hash, expected) == actual_hash = expected

\* compare_and_report after its compute_hash call c: what it prints, what
\* it returns and the exception that leaves it ("" for none).
Compared(c, expected) ==
    IF c.raised /= "" /\ ~Catches(c.raised)
    THEN [call |-> c, result |-> None, escaped |-> c.raised,
          out |-> <<"bunny", "compute_hash">>]
    ELSE IF c.raised /= ""
    THEN [call |-> c, result |-> None, escaped |-> "",
          out |-> <<"bunny", "compute_hash", "error_computing">>]
    ELSE IF Matches(lower(c.value), expected)
    THEN [call |-> c, result |-> True, escaped |-> "",
          out |-> <<"bunny", "compute_hash", "report", "ok_verdict">>]
    ELSE [call |-> c, result |-> False, escaped |-> "",
          out |-> <<"bunny", "compute_hash", "report", "fail_verdict">>]

\* compare_and_report(file_path, expected_hash, algorithm)
compare_and_report(path, expected, algorithm, fault) ==
    Compared(compute_hash(path, algorithm, fault), expected)

\* generate_and_report after its compute_hash call c
Generated(c) ==
    IF c.raised /= "" /\ ~Catches(c.raised)
    THEN [call |-> c, result |-> None, escaped |-> c.raised,
          out |-> <<"bunny", "compute_hash">>]
    ELSE IF c.raised /= ""
    THEN [call |-> c, result |-> None, escaped |-> "",
          out |-> <<"bunny", "compute_hash", "error_computing">>]
    ELSE [call |-> c, result |-> lower(c.value), escaped |-> "",
          out |-> <<"bunny", "compute_hash", "report">>]

\* generate_and_report(file_path, algorithm)
generate_and_report(path, algorithm, fault) ==
    Generated(compute_hash(path, algorithm, fault))

-----------------------------------------------------------------------------
(* Interaction Shell: main().                                              *)

\* `not x` for an optional string
Falsy(x) == x = None \/ x = <<>>

\* A choices check against the names the library lists.
ParseRejects_available(args) ==
    args.algo /= None /\ lower(args.algo) \notin algorithms_available

\* parser.parse_args(): --algo goes through type=str.lower and is then
\* checked against choices; the default is not checked against choices.
ParseRejects(args) ==
    args.algo /= None /\ ~InTuple(lower(args.algo), SUPPORTED_ALGORITHMS)

ParsedAlgo(args) == IF args.algo = None THEN lower(sha256) ELSE lower(args.algo)

\* `if args.file:`
UsesFlagMode(args) == ~Falsy(args.file)

\* A check that takes only the empty string for a missing value.
MissingExpected_empty(args) == args.expected = <<>>

\* `if not args.expected:`
MissingExpected(args) == Falsy(args.expected)

\* An exit status that reports a failed computation as a mismatch.
CompareExit_nofail(r) == IF r = True THEN 0 ELSE 1

\* Exit status after compare_and_report returned r.
CompareExit(r) == IF r = None THEN 2 ELSE IF r = True THEN 0 ELSE 1

\* An exit status that reports a failed generation as status 1.
GenerateExit_one(r) == IF r /= None THEN 0 ELSE 1

\* Exit status after generate_and_report returned r.
GenerateExit(r) == IF r /= None THEN 0 ELSE 2

\* A menu pass that shows the banner each time.
MenuPass_banner == <<"banner", "menu">>

\* What one pass of the loop of run_menu prints before its input().
MenuPass == <<"menu">>

\* What main() prints up to display_intro() in flag mode.
Intro == <<"parse_args", "isfile", "banner">>

-----------------------------------------------------------------------------
(* Interaction Shell: the prompts of menu mode.                            *)

\* A file prompt that gives up on a path that is not a file.
prompt_existing_file_once(line) ==
    LET path == strip(line)
    IN  IF path /= <<>> /\ isfile(path) THEN [done |-> TRUE, value |-> path]
        ELSE [done |-> TRUE, value |-> None]

\* One pass of the loop of prompt_existing_file on the line typed:
\* done with a value (None or the path), or not done (asks again).
prompt_existing_file(line) ==
    LET path == strip(line)
    IN  IF path = <<>> THEN [done |-> TRUE, value |-> None]
        ELSE IF isfile(path) THEN [done |-> TRUE, value |-> path]
        ELSE [done |-> FALSE, value |-> None]

\* An expected-hash prompt that strips but does not lowercase.
prompt_expected_hash_strip(line) ==
    LET value == strip(line)
    IN  IF value = <<>> THEN None ELSE value

\* prompt_expected_hash on the line typed (its loop always returns in the
\* first pass)
prompt_expected_hash(line) ==
    LET value == lower(strip(line))
    IN  IF value = <<>> THEN None ELSE value

\* An algorithm prompt where empty input means "return to the menu".
prompt_algorithm_empty(line, default) ==
    LET algo == lower(strip(line))
    IN  IF algo = <<>> \/ algo = back THEN [done |-> TRUE, value |-> None]
        ELSE LET algo2 == IF algo = default_ THEN default ELSE algo
             IN  IF InTuple(algo2, SUPPORTED_ALGORITHMS)
                 THEN [done |-> TRUE, value |-> algo2]
                 ELSE [done |-> FALSE, value |-> None]

\* One pass of the loop of prompt_algorithm(default) on the line typed.
prompt_algorithm(line, default) ==
    LET algo == lower(strip(line))
    IN  IF algo = <<>> THEN [done |-> TRUE, value |-> default]
        ELSE IF algo = back THEN [done |-> TRUE, value |-> None]
        ELSE LET algo2 == IF algo = default_ THEN default ELSE algo
             IN  IF InTuple(algo2, SUPPORTED_ALGORITHMS)
                 THEN [done |-> TRUE, value |-> algo2]
                 ELSE [done |-> FALSE, value |-> None]

-----------------------------------------------------------------------------
(* Inputs.                                                                 *)

UpperChar(c) == IF \E i \in 39..64 : Alphabet[i] = c THEN Alphabet[Ord(c) - 27] ELSE c

upper(s) == [i \in 1..Len(s) |-> UpperChar(s[i])]

\* The libraries the process may run on: a usual one (with a name listed in
\* two spellings), one where md5 is listed but cannot be constructed, and
\* one without sha256.
Libraries ==
    { [available |-> {sha256, SHA256, md5, shake_256},
       kind |-> (sha256 :> "fixed" @@ md5 :> "fixed" @@ shake_256 :> "xof")],
      [available |-> {sha256, md5, shake_256},
       kind |-> (sha256 :> "fixed" @@ md5 :> "unavailable" @@ shake_256 :> "xof")],
      [available |-> {md5, Md5, shake_256},
       kind |-> (sha256 :> "unavailable" @@ md5 :> "fixed" @@ shake_256 :> "xof")] }

Contents == UNION {[1..n -> Bytes] : n \in 0..MaxFileLen}

\* Digests the file can have, for building expected values that match.
TrueDigests == {hexdigest([name |-> a, data |-> content]) : a \in {sha256, md5}}

WrongDigest == <<"z", "z">>

\* Lines typed at the expected-hash prompt / values given to --expected.
ExpectedInputs ==
    {<<>>, <<" ">>, WrongDigest}
    \cup TrueDigests
    \cup {upper(d) : d \in TrueDigests}
    \cup {<<" ">> \o d \o <<" ">> : d \in TrueDigests}

PathInputs == {<<>>, <<" ">>, RegularFile, <<" ", "f", " ">>, Directory, <<"n">>}

AlgoInputs == {<<>>, back, default_, sha256, SHA256, md5, <<" ">> \o md5, shake_256, bogus}

SelectionInputs == {<<"1">>, <<"2">>, <<"3">>, <<" ", "1">>, <<"4">>}

NoArgs == [file |-> None, expected |-> None, algo |-> None, generate |-> FALSE]

\* Command lines: each option absent (None) or given with a value.  With
\* --file absent or empty the other options take fewer values.
CommandLines ==
    [file     : ({None} \cup PathInputs) \ {None, <<>>},
     expected : {None} \cup ExpectedInputs,
     algo     : {None} \cup (AlgoInputs \ {<<>>, back, default_}),
     generate : BOOLEAN]
    \cup
    [file     : {None, <<>>},
     expected : {None, WrongDigest},
     algo     : {None, bogus},
     generate : BOOLEAN]

-----------------------------------------------------------------------------
(* The state machine.                                                      *)

Init ==
    /\ \E L \in Libraries :
          /\ algorithms_available = L.available
          /\ libKind = L.kind
    /\ SUPPORTED_ALGORITHMS = _fixed_digest_algorithms
    /\ content \in Contents
    /\ pc = "start"
    /\ prev = "start"
    /\ argv = NoArgs
    /\ inp = None
    /\ file_path = None
    /\ expected_hash = None
    /\ raw_expected = None
    /\ out = <<>>
    /\ call = NoCall
    /\ result = None
    /\ exit_code = 0
    /\ bannerCount = 0

Env == <<algorithms_available, libKind, SUPPORTED_ALGORITHMS, content>>

\* occurrences of event e in a step's output
CountOf(printed, e) == Cardinality({i \in DOMAIN printed : printed[i] = e})

\* The step ends with the process at p (exited, or blocked in an input()).
Leave(p, code, printed, c, res, path, expected) ==
    /\ pc' = p
    /\ exit_code' = code
    /\ out' = printed
    /\ call' = c
    /\ result' = res
    /\ file_path' = path
    /\ expected_hash' = expected
    /\ bannerCount' = bannerCount + CountOf(printed, "banner")
    /\ prev' = pc

\* An exception leaves main(): the interpreter prints the traceback and the
\* process exits with status 1.
Uncaught(printed, c, path, expected) ==
    Leave("exited", 1, printed \o <<"traceback">>, c, None, path, expected)

\* main(): the whole of a flag-mode run, or the entry into run_menu() up to
\* its first input().
main(args, fault) ==
    /\ pc = "start"
    /\ IF ParseRejects(args)
       THEN Leave("exited", 2, <<"parse_args", "usage_error">>, NoCall, None, None, None)
       ELSE IF UsesFlagMode(args)
       THEN IF ~isfile(args.file)
            THEN Leave("exited", 2, <<"parse_args", "isfile", "file_not_found">>,
                       NoCall, None, args.file, None)
            ELSE IF args.generate
            THEN \E r \in {generate_and_report(args.file, ParsedAlgo(args), fault)} :
                    IF r.escaped /= ""
                    THEN Uncaught(Intro \o r.out, r.call, args.file, None)
                    ELSE Leave("exited", GenerateExit(r.result), Intro \o r.out,
                               r.call, r.result, args.file, None)
            ELSE IF MissingExpected(args)
            THEN Leave("exited", 2, Intro \o <<"expected_required">>,
                       NoCall, None, args.file, None)
            ELSE \E expected \in {lower(strip(args.expected))} :
                 \E r \in {compare_and_report(args.file, expected,
                                              ParsedAlgo(args), fault)} :
                    IF r.escaped /= ""
                    THEN Uncaught(Intro \o r.out, r.call, args.file, expected)
                    ELSE Leave("exited", CompareExit(r.result), Intro \o r.out,
                               r.call, r.result, args.file, expected)
       ELSE \* run_menu(): display_intro(), first pass of the loop
            Leave("MainMenu", 0, <<"parse_args", "banner">> \o MenuPass,
                  NoCall, None, None, None)
    /\ argv' = args
    /\ raw_expected' = args.expected
    /\ UNCHANGED <<Env, inp>>

\* A dispatch whose last branch leaves the loop.
MenuTarget_else(choice) ==
    IF choice = <<"1">> THEN "CompareFlow_file"
    ELSE IF choice = <<"2">> THEN "GenerateFlow_file"
    ELSE "exited"

\* The if / elif chain of run_menu: where the selection leads.
MenuTarget(choice) ==
    IF choice = <<"1">> THEN "CompareFlow_file"
    ELSE IF choice = <<"2">> THEN "GenerateFlow_file"
    ELSE IF choice = <<"3">> THEN "exited"
    ELSE "MainMenu"

\* The input() of run_menu returns `line`.
Selection(line) ==
    /\ pc = "MainMenu"
    /\ \E target \in {MenuTarget(strip(line))} :
          IF target = "CompareFlow_file"
          THEN Leave(target, exit_code, <<"compare_header">>,
                     NoCall, None, None, None)
          ELSE IF target = "GenerateFlow_file"
          THEN Leave(target, exit_code, <<"generate_header">>,
                     NoCall, None, None, None)
          ELSE IF target = "exited"
          THEN Leave(target, 0, <<"goodbye">>, NoCall, None, None, None)
          ELSE Leave(target, exit_code, <<"invalid_selection">> \o MenuPass,
                     NoCall, None, None, None)
    /\ inp' = line
    /\ raw_expected' = None
    /\ UNCHANGED <<Env, argv>>

\* The input() of prompt_existing_file returns `line`.
FilePrompt(line) ==
    /\ pc \in {"CompareFlow_file", "GenerateFlow_file"}
    /\ \E r \in {prompt_existing_file(line)} :
          IF ~r.done
          THEN Leave(pc, exit_code, <<"isfile", "file_not_found">>,
                     NoCall, None, None, None)
          ELSE IF r.value = None
          THEN Leave("MainMenu", exit_code, <<"no_file_selected">> \o MenuPass,
                     NoCall, None, None, None)
          ELSE Leave(IF pc = "CompareFlow_file"
                     THEN "CompareFlow_expected" ELSE "GenerateFlow_algorithm",
                     exit_code, <<"isfile">>, NoCall, None, r.value, None)
    /\ inp' = line
    /\ UNCHANGED <<Env, argv, raw_expected>>

\* The input() of prompt_expected_hash returns `line`.
ExpectedPrompt(line) ==
    /\ pc = "CompareFlow_expected"
    /\ \E v \in {prompt_expected_hash(line)} :
          IF v = None
          THEN Leave("MainMenu", exit_code, <<"no_expected_hash">> \o MenuPass,
                     NoCall, None, None, None)
          ELSE Leave("CompareFlow_algorithm", exit_code, <<>>,
                     NoCall, None, file_path, v)
    /\ inp' = line
    /\ raw_expected' = line
    /\ UNCHANGED <<Env, argv>>

\* The rest of compare_hashes / generate_hash once prompt_algorithm returned
\* `algorithm`: the report, then back in the loop of run_menu.
Report(algorithm, fault) ==
    \E r \in {IF pc = "CompareFlow_algorithm"
              THEN compare_and_report(file_path, expected_hash, algorithm, fault)
              ELSE generate_and_report(file_path, algorithm, fault)} :
       IF r.escaped /= ""
       THEN Uncaught(r.out, r.call, None, None)
       ELSE Leave("MainMenu", exit_code, r.out \o MenuPass, r.call, r.result,
                  None, None)

\* The input() of prompt_algorithm returns `line`; when the prompt returns
\* an algorithm the flow goes on to its report and back to the menu loop.
AlgorithmPrompt(line, fault) ==
    /\ pc \in {"CompareFlow_algorithm", "GenerateFlow_algorithm"}
    /\ \E r \in {prompt_algorithm(line, sha256)} :
          IF ~r.done
          THEN Leave(pc, exit_code, <<"unsupported_algorithm">>,
                     NoCall, None, file_path, expected_hash)
          ELSE IF r.value = None
          THEN Leave("MainMenu", exit_code, <<"no_algorithm_selected">> \o MenuPass,
                     NoCall, None, None, None)
          ELSE Report(r.value, fault)
    /\ inp' = line
    /\ UNCHANGED <<Env, argv, raw_expected>>

\* An input() call meets end of input: EOFError is caught nowhere, the
\* interpreter prints the traceback and the process exits with status 1.
InputEOF ==
    /\ pc \notin {"start", "exited"}
    /\ Uncaught(<<>>, NoCall, file_path, expected_hash)
    /\ inp' = None
    /\ UNCHANGED <<Env, argv, raw_expected>>

Next ==
    \/ /\ pc = "start"
       /\ \E args \in CommandLines, fault \in 0..MaxFault : main(args, fault)
    \/ /\ pc = "MainMenu"
       /\ \E line \in SelectionInputs : Selection(line)
    \/ /\ pc \in {"CompareFlow_file", "GenerateFlow_file"}
       /\ \E line \in PathInputs : FilePrompt(line)
    \/ /\ pc = "CompareFlow_expected"
       /\ \E line \in ExpectedInputs : ExpectedPrompt(line)
    \/ /\ pc \in {"CompareFlow_algorithm", "GenerateFlow_algorithm"}
       /\ \E line \in AlgoInputs, fault \in 0..MaxFault : AlgorithmPrompt(line, fault)
    \/ InputEOF

Spec == Init /\ [][Next]_vars

TypeOK ==
    /\ pc \in {"start", "MainMenu", "CompareFlow_file", "CompareFlow_expected",
               "CompareFlow_algorithm", "GenerateFlow_file",
               "GenerateFlow_algorithm", "exited"}
    /\ exit_code \in 0..2
    /\ bannerCount \in Nat

-----------------------------------------------------------------------------
(* compute_hash on files around the chunk boundaries.                      *)

\* File lengths at, just below and just above each multiple of CHUNK_SIZE.
ChunkedLengths ==
    {n \in {k * CHUNK_SIZE + d : k \in 0..MaxChunks, d \in {-1, 0, 1}} : n >= 0}

\* A file of n bytes whose chunks differ from one another.
Pattern(n, s) == [i \in 1..n |-> ((i \div 5) + (i \div 4096) + s) % 2]

LargeContents == {Pattern(n, s) : n \in ChunkedLengths, s \in Bytes}

InitHash ==
    /\ \E L \in Libraries :
          /\ algorithms_available = L.available
          /\ libKind = L.kind
    /\ SUPPORTED_ALGORITHMS = _fixed_digest_algorithms
    /\ content \in LargeContents
    /\ pc = "start"
    /\ prev = "start"
    /\ argv = NoArgs
    /\ inp = None
    /\ file_path = None
    /\ expected_hash = None
    /\ raw_expected = None
    /\ out = <<>>
    /\ call = NoCall
    /\ result = None
    /\ exit_code = 0
    /\ bannerCount = 0

\* One call compute_hash(path, algorithm).
HashFile(path, algorithm, fault) ==
    /\ pc = "start"
    /\ Leave("hashed", exit_code, <<"compute_hash">>,
             compute_hash(path, algorithm, fault), None, path, None)
    /\ inp' = None
    /\ UNCHANGED <<Env, argv, raw_expected>>

NextHash ==
    \E path \in {RegularFile, Directory}, algorithm \in LibNames \cup {bogus},
       fault \in 0..(MaxChunks + 3) :
        HashFile(path, algorithm, fault)

SpecHash == InitHash /\ [][NextHash]_vars

-----------------------------------------------------------------------------
(* The registry on every library.                                          *)

\* Names a library may report, some in two spellings.
RegistryNames == {sha256, SHA256, md5, Md5, shake_256}

InitRegistry ==
    /\ algorithms_available \in SUBSET RegistryNames
    /\ libKind \in [LibNames -> LibKinds]
    /\ SUPPORTED_ALGORITHMS = <<>>
    /\ content = <<>>
    /\ pc = "import"
    /\ prev = "import"
    /\ argv = NoArgs
    /\ inp = None
    /\ file_path = None
    /\ expected_hash = None
    /\ raw_expected = None
    /\ out = <<>>
    /\ call = NoCall
    /\ result = None
    /\ exit_code = 0
    /\ bannerCount = 0

\* The module is imported: line 30 computes SUPPORTED_ALGORITHMS.
LoadModule ==
    /\ pc = "import"
    /\ IF RegistryRaises
       THEN /\ Uncaught(<<>>, NoCall, None, None)
            /\ UNCHANGED SUPPORTED_ALGORITHMS
       ELSE /\ Leave("start", exit_code, <<>>, NoCall, None, None, None)
            /\ SUPPORTED_ALGORITHMS' = _fixed_digest_algorithms
    /\ UNCHANGED <<algorithms_available, libKind, content, argv, inp, raw_expected>>

NextRegistry == LoadModule

SpecRegistry == InitRegistry /\ [][NextRegistry]_vars

\* the chunks fed to the hash object, put end to end
RECURSIVE Concat(_)
Concat(chunks) ==
    IF chunks = <<>> THEN <<>> ELSE Head(chunks) \o Concat(Tail(chunks))

-----------------------------------------------------------------------------
(* Vocabulary of the properties.                                           *)

Has(printed, e) == \E i \in DOMAIN printed : printed[i] = e

\* main() has run
Ran == pc /= "start"

\* the state is the one main() left
MainStep == prev = "start" /\ pc /= "start"

\* --algo was given and its lowercase form is not a supported name
InvalidAlgo ==
    /\ argv.algo /= None
    /\ \A i \in DOMAIN SUPPORTED_ALGORITHMS : SUPPORTED_ALGORITHMS[i] /= lower(argv.algo)

\* a run that took the non-interactive branch of main()
FlagRun == MainStep /\ ~InvalidAlgo /\ argv.file \notin {None, <<>>}

FileExists == argv.file = RegularFile

\* compute_hash was called and returned a digest
Computed == call.called /\ call.raised = ""

\* the menu loop has been entered in this run
MenuEntered == pc \notin {"start", "exited"} \/ (pc = "exited" /\ prev /= "start")

FilePrompts == {"CompareFlow_file", "GenerateFlow_file"}
AlgoPrompts == {"CompareFlow_algorithm", "GenerateFlow_algorithm"}

\* compare_and_report got as far as its comparison
CompareMade == call.called /\ result \in {True, False}

-----------------------------------------------------------------------------
(* Properties.                                                             *)

C1_Codes ==
    /\ pc = "exited"
    /\ exit_code \in {0, 1, 2}
    /\ exit_code = 0 <=> (Computed /\ call.value = lower(strip(argv.expected)))
    /\ exit_code = 1 <=> (Computed /\ call.value /= lower(strip(argv.expected)))
    /\ exit_code = 2 <=> (call.called /\ call.raised /= "")

\* C1 as stated: in flag mode without --generate, with an existing file and
\* any supplied --expected value, the exit code is 0 exactly on a match, 1
\* exactly on a computed digest that differs, 2 exactly when compute_hash
\* raised.
C1_AsStated ==
    (FlagRun /\ ~argv.generate /\ FileExists /\ argv.expected /= None) => C1_Codes

\* C1 (amended): in flag mode without --generate, with an existing file and
\* a supplied non-empty --expected value, the exit code is 0 exactly when
\* the computed digest equals the expected value (stripped and lowercased),
\* 1 exactly when the digest was computed and differs, 2 exactly when
\* compute_hash raised; no other exit code occurs.
C1_ExitCodes ==
    (FlagRun /\ ~argv.generate /\ FileExists /\ argv.expected \notin {None, <<>>})
        => C1_Codes

C1_Witness ==
    /\ FlagRun /\ ~argv.generate /\ FileExists
    /\ argv.expected = WrongDigest
    /\ Computed /\ pc = "exited" /\ exit_code = 1

\* C2: in flag mode, when --file is not an existing regular file, the run
\* prints the file-not-found message and exits with 2 without calling
\* compute_hash, whatever --generate and --expected are.
C2_FileNotFound ==
    (FlagRun /\ ~FileExists) =>
        /\ pc = "exited" /\ exit_code = 2
        /\ Has(out, "file_not_found")
        /\ ~call.called /\ ~Has(out, "compute_hash")

C2_Witness ==
    /\ FlagRun /\ argv.file = Directory /\ argv.generate
    /\ argv.expected = WrongDigest
    /\ pc = "exited" /\ exit_code = 2 /\ Has(out, "file_not_found")

\* C3: in flag mode without --generate and without an expected value, the
\* run reports an error and exits with 2, and compute_hash is not called.
C3_MissingExpected ==
    (FlagRun /\ ~argv.generate /\ argv.expected = None) =>
        /\ pc = "exited" /\ exit_code = 2
        /\ Has(out, "expected_required") \/ Has(out, "file_not_found")
        /\ ~call.called /\ ~Has(out, "compute_hash")

C3_Witness ==
    /\ FlagRun /\ ~argv.generate /\ argv.expected = None /\ FileExists
    /\ pc = "exited" /\ exit_code = 2 /\ Has(out, "expected_required")

\* C4: in flag mode with --generate and an existing file, the exit code is
\* 0 when the digest was computed and 2 when compute_hash raised, never 1,
\* and no comparison with --expected is made, whatever its value.
C4_Generate ==
    (FlagRun /\ argv.generate /\ FileExists) =>
        /\ pc = "exited" /\ call.called
        /\ exit_code = IF call.raised = "" THEN 0 ELSE 2
        /\ exit_code /= 1
        /\ ~Has(out, "ok_verdict") /\ ~Has(out, "fail_verdict")
        /\ result \notin {True, False}
        /\ expected_hash = None

C4_Witness ==
    /\ FlagRun /\ argv.generate /\ FileExists
    /\ argv.expected \in TrueDigests
    /\ argv.expected /= call.value
    /\ Computed /\ pc = "exited" /\ exit_code = 0

\* C5 as stated: whenever --file is supplied, with any value, the menu is
\* never entered; the menu is entered only when no --file flag is present.
C5_FilePresenceSelectsFlagMode == MenuEntered => argv.file = None

\* C6: an --algo value whose lowercase form is not supported is rejected by
\* the parser: the run ends with status 2 before the file-existence check,
\* the banner, and any compute_hash call or file open.
C6_InvalidAlgoRejected ==
    (Ran /\ InvalidAlgo) =>
        /\ pc = "exited" /\ prev = "start" /\ exit_code = 2
        /\ out = <<"parse_args", "usage_error">>
        /\ ~call.called /\ ~call.opened
        /\ bannerCount = 0

C6_Witness ==
    /\ Ran /\ InvalidAlgo /\ argv.algo = shake_256 /\ FileExists
    /\ pc = "exited" /\ exit_code = 2 /\ ~call.called

\* C7 as stated: the banner is printed exactly once in every run the parser
\* accepts, flag-mode runs that end in file-not-found included.
C7_AsStated == (Ran /\ ~InvalidAlgo) => bannerCount = 1

\* C7 (amended): the banner is printed at most once per run: exactly once,
\* before anything else is printed, in a non-interactive run whose file
\* exists (a run ending in the missing-expected error included) and exactly
\* once on entry to a menu session, never on a later pass of the menu loop;
\* a run that ends in file-not-found, or that the parser rejects, prints no
\* banner.
C7_BannerOnce ==
    /\ bannerCount <= 1
    /\ Ran => bannerCount =
                 IF InvalidAlgo \/ (argv.file \notin {None, <<>>} /\ ~FileExists)
                 THEN 0 ELSE 1
    /\ Has(out, "banner") => prev = "start"
    /\ \A i \in DOMAIN out :
          out[i] = "banner" => \A j \in 1..(i - 1) : out[j] \in {"parse_args", "isfile"}

C7_Witness ==
    /\ pc = "MainMenu" /\ prev = "MainMenu" /\ inp = <<"4">>
    /\ bannerCount = 1 /\ ~Has(out, "banner")

\* C8 as stated: the outcome is Match exactly when the expected hash as the
\* user supplied it and the digest are equal after lowercasing both.
C8_AsStated ==
    CompareMade => (result = True <=> lower(raw_expected) = lower(call.value))

\* C8 (amended): in menu and flag mode the outcome is Match exactly when the
\* expected hash, stripped of surrounding whitespace, and the digest are
\* equal after lowercasing both, and Mismatch when they differ.
C8_CaseInsensitive ==
    CompareMade =>
        /\ result = True  <=> lower(strip(raw_expected)) = lower(call.value)
        /\ result = False <=> lower(strip(raw_expected)) /= lower(call.value)

C8_Witness ==
    /\ CompareMade /\ prev = "CompareFlow_algorithm"
    /\ result = True
    /\ raw_expected /= call.value
    /\ strip(raw_expected) = raw_expected

\* C9: in menu mode a flow returns to MainMenu without calling compute_hash
\* when the file prompt or the expected-hash prompt gets empty input or the
\* algorithm prompt gets "back"; empty input at the algorithm prompt selects
\* the default algorithm and the flow proceeds; compute_hash is called only
\* after every prompt of the flow returned a value.
C9_Aborts ==
    /\ (prev \in FilePrompts \cup {"CompareFlow_expected"} /\ inp = <<>>) =>
          /\ pc = "MainMenu" /\ ~call.called
          /\ file_path = None /\ expected_hash = None /\ result = None
    /\ (prev \in AlgoPrompts /\ inp = back) =>
          /\ pc = "MainMenu" /\ ~call.called
          /\ file_path = None /\ expected_hash = None /\ result = None
    /\ (prev \in AlgoPrompts /\ inp = <<>>) =>
          call.called /\ call.algorithm = sha256
    /\ pc \in AlgoPrompts \cup {"CompareFlow_expected"} =>
          file_path \notin {None, <<>>}
    /\ pc = "CompareFlow_algorithm" => expected_hash \notin {None, <<>>}
    /\ (call.called /\ prev /= "start") =>
          /\ prev \in AlgoPrompts
          /\ call.path \notin {None, <<>>}
          /\ call.algorithm \notin {None, <<>>}

C9_Witness ==
    /\ prev = "GenerateFlow_algorithm" /\ inp = <<>>
    /\ call.called /\ call.algorithm = sha256 /\ call.path = RegularFile

\* C10: in menu mode, once a flow has called compute_hash, control is back
\* in MainMenu with the menu printed again, on match, mismatch and
\* computation error alike; no compute_hash failure ends the loop or leaves
\* as an uncaught exception.
C10_BackToMenu ==
    (prev \in AlgoPrompts /\ call.called) =>
        /\ pc = "MainMenu"
        /\ out /= <<>> /\ out[Len(out)] = "menu"
        /\ ~Has(out, "traceback")

C10_Witness ==
    /\ prev = "CompareFlow_algorithm" /\ call.called
    /\ call.raised = "ValueError"
    /\ pc = "MainMenu" /\ Has(out, "error_computing")

\* the last step consumed a line at a prompt of a flow
FlowPrompts == FilePrompts \cup AlgoPrompts \cup {"CompareFlow_expected"}

CompareStates == {"CompareFlow_file", "CompareFlow_expected", "CompareFlow_algorithm"}
GenerateStates == {"GenerateFlow_file", "GenerateFlow_algorithm"}

\* C11 as stated: the menu session ends only by selection "3", with status
\* 0; no other step ends it.
C11_AsStated ==
    (pc = "exited" /\ prev /= "start") =>
        /\ prev = "MainMenu" /\ inp /= None /\ strip(inp) = <<"3">>
        /\ exit_code = 0

\* C11 (amended): the menu loop is left normally only by selection "3",
\* after which the process ends with status 0; the one other way a session
\* ends is an input() call that meets end of input (uncaught EOFError,
\* status 1).  A selection other than "1", "2", "3" leaves the shell in
\* MainMenu with no flow started and no digest computed; "1" and "2" start
\* their flow, and a line typed in a flow leads to a prompt of that flow or
\* back to MainMenu, never to Exit.
C11_MenuExit ==
    /\ (pc = "exited" /\ prev /= "start") =>
          \/ /\ prev = "MainMenu" /\ inp /= None /\ strip(inp) = <<"3">>
             /\ exit_code = 0 /\ out = <<"goodbye">>
          \/ inp = None /\ exit_code = 1 /\ Has(out, "traceback")
    /\ (prev = "MainMenu" /\ inp /= None /\ strip(inp) = <<"3">>) =>
          pc = "exited" /\ exit_code = 0
    /\ (prev = "MainMenu" /\ inp /= None
            /\ strip(inp) \notin {<<"1">>, <<"2">>, <<"3">>}) =>
          /\ pc = "MainMenu" /\ Has(out, "invalid_selection")
          /\ ~call.called /\ file_path = None /\ expected_hash = None
    /\ (prev = "MainMenu" /\ inp /= None /\ strip(inp) = <<"1">>) =>
          pc = "CompareFlow_file"
    /\ (prev = "MainMenu" /\ inp /= None /\ strip(inp) = <<"2">>) =>
          pc = "GenerateFlow_file"
    /\ (prev \in CompareStates /\ inp /= None) => pc \in CompareStates \cup {"MainMenu"}
    /\ (prev \in GenerateStates /\ inp /= None) => pc \in GenerateStates \cup {"MainMenu"}

C11_Witness ==
    /\ prev = "MainMenu" /\ inp = <<"3">>
    /\ pc = "exited" /\ exit_code = 0 /\ out = <<"goodbye">>

\* the name the algorithm prompt looks up for the line typed
EnteredAlgo == IF lower(strip(inp)) = default_ THEN sha256 ELSE lower(strip(inp))

\* the last step gave the file prompt a path that is not a regular file
BadPathEntered ==
    /\ prev \in FilePrompts /\ inp /= None
    /\ strip(inp) /= <<>> /\ strip(inp) /= RegularFile

\* the last step gave the algorithm prompt a name that is not supported
BadAlgoEntered ==
    /\ prev \in AlgoPrompts /\ inp /= None
    /\ lower(strip(inp)) \notin {<<>>, back}
    /\ \A i \in DOMAIN SUPPORTED_ALGORITHMS : SUPPORTED_ALGORITHMS[i] /= EnteredAlgo

\* C12 as stated: in menu mode a path that is not a regular file and an
\* algorithm name that is not supported each give a printed message and a
\* return to MainMenu.
C12_AsStated ==
    /\ BadPathEntered => Has(out, "file_not_found") /\ pc = "MainMenu"
    /\ BadAlgoEntered => Has(out, "unsupported_algorithm") /\ pc = "MainMenu"

\* C12 (amended): in menu mode a path that is not a regular file and an
\* algorithm name that is not supported each give a printed message and the
\* same prompt again, the flow keeping what it has collected; nothing is
\* computed, and MainMenu is reached only by a later empty line or "back".
C12_Reprompt ==
    /\ BadPathEntered =>
          /\ Has(out, "file_not_found") /\ pc = prev
          /\ ~call.called /\ file_path = None
    /\ BadAlgoEntered =>
          /\ Has(out, "unsupported_algorithm") /\ pc = prev
          /\ ~call.called /\ file_path = RegularFile
          /\ (pc = "CompareFlow_algorithm" => expected_hash \notin {None, <<>>})

C12_Witness ==
    /\ prev = "CompareFlow_algorithm" /\ inp = bogus
    /\ pc = "CompareFlow_algorithm" /\ Has(out, "unsupported_algorithm")
    /\ file_path = RegularFile

\* C13: for every supported set, also one without "sha256", every
\* compute_hash call of menu mode and of flag mode is made with an algorithm
\* name that is a member of the supported set, the defaulted cases included
\* (empty line or "default" at the prompt, --algo omitted).
C13_AlgorithmSupported ==
    call.called => InTuple(call.algorithm, SUPPORTED_ALGORITHMS)

\* C14: for every file content, compute_hash feeds the hash object
\* non-empty chunks of at most 8192 bytes, in file order, whose
\* concatenation is the whole content; it stops at the first empty read;
\* and the digest returned is the digest of the whole content taken in one
\* pass.  For the empty file no update is made.
C14_Streaming ==
    (call.called /\ call.opened) =>
        /\ \A i \in DOMAIN call.fed :
              call.fed[i] /= <<>> /\ Len(call.fed[i]) <= 8192
        /\ Concat(call.fed) = SubSeq(content, 1, Len(Concat(call.fed)))
        /\ call.raised /= "OSError" =>
              /\ Concat(call.fed) = content
              /\ call.reads = Len(call.fed) + 1
              /\ content = <<>> => call.fed = <<>>
        /\ call.raised = "" =>
              call.value = hexdigest([name |-> call.algorithm, data |-> content])

C14_Witness ==
    /\ pc = "hashed" /\ Computed
    /\ Len(content) = 2 * CHUNK_SIZE + 1
    /\ Len(call.fed) = 3 /\ Len(call.fed[3]) = 1 /\ call.reads = 4

\* position of the first event e in a call's events, 0 when absent
FirstAt(events, e) ==
    IF Has(events, e) THEN CHOOSE i \in DOMAIN events :
                               events[i] = e /\ \A j \in 1..(i - 1) : events[j] /= e
    ELSE 0

\* C15: compute_hash opens the file only after the algorithm was
\* instantiated; whenever it returns or raises, also on a read failure in
\* mid-stream, a file it opened has been closed; an unsupported algorithm
\* never causes the file to be opened.
C15_HandleClosed ==
    call.called =>
        /\ call.opened => call.closed
        /\ call.opened =>
              /\ KindOf(call.algorithm) /= "unavailable"
              /\ FirstAt(call.events, "new") = 1 /\ FirstAt(call.events, "open") = 2
              /\ CountOf(call.events, "close") = 1
              /\ \A i \in DOMAIN call.events :
                    call.events[i] = "read" => i < FirstAt(call.events, "close")
        /\ KindOf(call.algorithm) = "unavailable" =>
              /\ call.raised = "ValueError"
              /\ ~call.opened /\ ~Has(call.events, "open")

C15_Witness ==
    /\ call.called /\ call.raised = "OSError"
    /\ Len(call.fed) >= 1 /\ call.reads = Len(call.fed) + 1
    /\ call.opened /\ call.closed

\* the lowercased names the library reports whose probe succeeds
ProbedOk == {lower(name) : name \in {n \in algorithms_available : Probe(lower(n)) = ""}}

\* C16: for every set of names the library reports and every probe outcome
\* per name, the registry is a lexicographically sorted, duplicate-free
\* sequence of lowercase names holding exactly the lowercased names whose
\* probe (instantiate, then ask for the digest) succeeded; a name whose
\* probe fails is left out and no exception leaves the computation.
C16_Registry ==
    (prev = "import" /\ pc /= "import") =>
        /\ pc = "start" /\ ~Has(out, "traceback")
        /\ \A i \in DOMAIN SUPPORTED_ALGORITHMS : \A j \in DOMAIN SUPPORTED_ALGORITHMS :
              i < j => StrLess(SUPPORTED_ALGORITHMS[i], SUPPORTED_ALGORITHMS[j])
        /\ \A i \in DOMAIN SUPPORTED_ALGORITHMS :
              \A k \in DOMAIN SUPPORTED_ALGORITHMS[i] :
                  ~IsUpper(SUPPORTED_ALGORITHMS[i][k])
        /\ {SUPPORTED_ALGORITHMS[i] : i \in DOMAIN SUPPORTED_ALGORITHMS} = ProbedOk

C16_Witness ==
    /\ prev = "import" /\ pc = "start"
    /\ algorithms_available = RegistryNames
    /\ Probe(shake_256) = "TypeError"
    /\ SUPPORTED_ALGORITHMS = <<md5, sha256>>

\* an expected hash as compare_and_report should get it
Normalised(expected) ==
    /\ expected /= None /\ expected /= <<>>
    /\ lower(expected) = expected /\ strip(expected) = expected

\* C17: whenever compare_and_report is invoked, in menu mode or in flag
\* mode, the expected hash it gets is non-empty, lowercase and without
\* surrounding whitespace; an expected value that is empty once stripped is
\* treated as absent (back to MainMenu in menu mode, exit 2 in flag mode) and
\* is never compared with a computed digest.
C17_ExpectedNormalised ==
    /\ pc = "CompareFlow_algorithm" => Normalised(expected_hash)
    /\ (prev = "CompareFlow_expected" /\ inp /= None /\ strip(inp) = <<>>) =>
          pc = "MainMenu" /\ ~call.called
    /\ (FlagRun /\ ~argv.generate /\ call.called) => Normalised(expected_hash)
    /\ (FlagRun /\ FileExists /\ ~argv.generate
            /\ argv.expected /= None /\ strip(argv.expected) = <<>>) =>
          exit_code = 2 /\ ~call.called

====
